---- MODULE Spec2Model ----
(***************************************************************************)
(* GDCR zone lookup service: src/app.py (windowed strategy, Firestore      *)
(* write-back, startup download) and src/app_original.py (full-load        *)
(* strategy).                                                              *)
(*                                                                         *)
(* Conventions.  Python text (zone names, column names) is a sequence of   *)
(* one-character strings so that str.strip and str.lower are computed.     *)
(* JSON scalars that the code only copies (base_fsi, ...) are strings      *)
(* holding their JSON text.  Coordinates are integers in grid units of     *)
(* 0.05 degree.  Polygons are axis-aligned rectangles                      *)
(* [minx, miny, maxx, maxy] with x = longitude and y = latitude.           *)
(***************************************************************************)
EXTENDS Integers, Sequences, FiniteSets, TLC

VARIABLES
    dataset,     \* features of the polygon file, in file order
    GDCR_DATA,   \* rows of gdcr_masterjson.json, in file order
    db,          \* Firestore collection "properties": doc_id -> field map
    file,        \* LOCAL_GEOJSON on disk: -1 absent, else bytes written
    pc,          \* position of the process in module start-up
    r,           \* response of requests.get during start-up
    starts,      \* number of process starts so far
    req,         \* last request received
    resp,        \* response to the last request
    reads        \* dataset reads (gpd.read_file) done for the last request

vars == <<dataset, GDCR_DATA, db, file, pc, r, starts, req, resp, reads>>

----------------------------------------------------------------------------
(* Bounds *)

MaxCoord == 5          \* request latitudes and longitudes range over 0..MaxCoord
MaxFeatures == 2       \* features per dataset
MaxStarts == 3         \* cap on the number of process starts
ContentLen == 2        \* size of the remote dataset, in write units

(* Program constants *)

buffer_deg == 1        \* 0.05 degree, in grid units of 0.05 degree
EPSG == 4326

----------------------------------------------------------------------------
(* Python text *)

UpperChars == <<"A","B","C","D","E","F","G","H","I","J","K","L","M",
                "N","O","P","Q","R","S","T","U","V","W","X","Y","Z">>
LowerChars == <<"a","b","c","d","e","f","g","h","i","j","k","l","m",
                "n","o","p","q","r","s","t","u","v","w","x","y","z">>
Whitespace == {" ", "\t", "\n"}

UpperIndex == [c \in {UpperChars[i] : i \in 1..Len(UpperChars)} |->
                  CHOOSE i \in 1..Len(UpperChars) : UpperChars[i] = c]

LowerChar(c) == IF c \in DOMAIN UpperIndex THEN LowerChars[UpperIndex[c]] ELSE c

lower(s) == [i \in 1..Len(s) |-> LowerChar(s[i])]

RECURSIVE lstrip(_)
lstrip(s) ==
    IF s # << >> /\ Head(s) \in Whitespace THEN lstrip(Tail(s)) ELSE s

RECURSIVE rstrip(_)
rstrip(s) ==
    IF s # << >> /\ s[Len(s)] \in Whitespace
    THEN rstrip(SubSeq(s, 1, Len(s) - 1)) ELSE s

strip(s) == rstrip(lstrip(s))

PyNone == <<"<None>">>      \* the value None in a text-valued cell
NoneText == <<"N","o","n","e">>
str(v) == IF v = PyNone THEN NoneText ELSE v
truthy(v) == v # PyNone /\ v # << >>
JsonNull == "null"

----------------------------------------------------------------------------
(* Geometry *)

Point(x, y) == [x |-> x, y |-> y]

\* a plausible slip: the boundary counted as inside
covers(g, p) ==
    g.minx <= p.x /\ p.x <= g.maxx /\ g.miny <= p.y /\ p.y <= g.maxy

\* shapely: a polygon contains a point only if the point is in its interior
contains(g, p) ==
    g.minx < p.x /\ p.x < g.maxx /\ g.miny < p.y /\ p.y < g.maxy

\* spatial filter of the reader: features whose extent meets the box
\* bbox = (minx, miny, maxx, maxy)
intersects_bbox(g, bbox) ==
    g.minx <= bbox[3] /\ g.maxx >= bbox[1] /\ g.miny <= bbox[4] /\ g.maxy >= bbox[2]

----------------------------------------------------------------------------
(* Reading the polygon file into a frame *)

HasKey(props, k) == \E i \in 1..Len(props) : props[i][1] = k

PropGet(props, k) ==
    IF HasKey(props, k)
    THEN props[CHOOSE i \in 1..Len(props) :
                  props[i][1] = k /\ \A j \in 1..(i - 1) : props[j][1] # k][2]
    ELSE PyNone

RECURSIVE AddKeys(_, _)
AddKeys(cols, props) ==
    IF props = << >> THEN cols
    ELSE AddKeys(IF \E i \in 1..Len(cols) : cols[i] = Head(props)[1]
                 THEN cols ELSE Append(cols, Head(props)[1]),
                 Tail(props))

\* the layer schema the reader reports: every property key of the file, in
\* order of appearance, whatever the bbox selects
RECURSIVE Schema(_, _)
Schema(cols, feats) ==
    IF feats = << >> THEN cols
    ELSE Schema(AddKeys(cols, Head(feats).properties), Tail(feats))

geometry == <<"g","e","o","m","e","t","r","y">>

\* a row carries every schema column; a key the feature lacks reads as None
Row(f, cols) ==
    [geometry |-> f.geometry,
     cells |-> [c \in {cols[i] : i \in 1..Len(cols)} |-> PropGet(f.properties, c)]]

\* gpd.read_file(path, bbox=bbox); bbox = PyNone reads every feature
read_file(feats, bbox) ==
    LET cols == Schema(<< >>, feats)
        kept == SelectSeq(feats, LAMBDA f :
                    bbox = PyNone \/ intersects_bbox(f.geometry, bbox))
    IN [crs |-> EPSG,
        columns |-> Append(cols, geometry),
        rows |-> [i \in 1..Len(kept) |-> Row(kept[i], cols)]]

to_crs(gdf, epsg) == [gdf EXCEPT !.crs = epsg]

\* a plausible slip: the box built latitude first
SwappedBBox(lat, lon) ==
    <<lat - buffer_deg, lon - buffer_deg, lat + buffer_deg, lon + buffer_deg>>

BBox(lat, lon) ==
    <<lon - buffer_deg, lat - buffer_deg, lon + buffer_deg, lat + buffer_deg>>

load_zones_near_point(lat, lon) ==
    LET gdf == read_file(dataset, BBox(lat, lon))
    IN IF gdf.crs # EPSG THEN to_crs(gdf, EPSG) ELSE gdf

----------------------------------------------------------------------------
(* Resolver of src/app.py *)

k_zoning == <<"z","o","n","i","n","g">>
k_zone == <<"z","o","n","e">>
k_zone_name == <<"z","o","n","e","_","n","a","m","e">>
ZoneColumns == {k_zoning, k_zone, k_zone_name}

E_OUTSIDE == "Point outside GDCR zones"
E_NOCOLUMN == "Zoning column not found"
E_NODATA == "GDCR data not found"

RowGet(row, k, default) == IF k \in DOMAIN row THEN row[k] ELSE default

\* zones_gdf[zones_gdf.contains(point)]
Match(gdf, point) ==
    [gdf EXCEPT !.rows = SelectSeq(gdf.rows, LAMBDA rw : contains(rw.geometry, point))]

IsZoneCol(col) == lower(strip(col)) \in ZoneColumns

\* the first frame column whose trimmed lower-case name is recognised
FindZoneCol(columns) ==
    IF \E i \in 1..Len(columns) : IsZoneCol(columns[i])
    THEN columns[CHOOSE i \in 1..Len(columns) :
                    IsZoneCol(columns[i]) /\ \A j \in 1..(i - 1) : ~IsZoneCol(columns[j])]
    ELSE PyNone

IsRuleFor(row, zone_name) ==
    lower(strip(str(RowGet(row, "zoning", << >>)))) = lower(zone_name)

find_gdcr_in(match) ==
    IF match.rows = << >> THEN [error |-> E_OUTSIDE]
    ELSE LET zone_col == FindZoneCol(match.columns) IN
      IF zone_col = PyNone THEN [error |-> E_NOCOLUMN]
      ELSE LET zone_name == strip(str(match.rows[1].cells[zone_col])) IN
        IF \E i \in 1..Len(GDCR_DATA) : IsRuleFor(GDCR_DATA[i], zone_name)
        THEN LET row == GDCR_DATA[CHOOSE i \in 1..Len(GDCR_DATA) :
                            IsRuleFor(GDCR_DATA[i], zone_name)
                            /\ \A j \in 1..(i - 1) : ~IsRuleFor(GDCR_DATA[j], zone_name)]
             IN [zone |-> zone_name,
                 base_fsi |-> RowGet(row, "base_fsi", JsonNull),
                 max_height_m |-> RowGet(row, "max_height_m", JsonNull),
                 permissible_use |-> RowGet(row, "permissible_use", JsonNull)]
        ELSE [zone |-> zone_name, error |-> E_NODATA]

find_gdcr(lat, lon) ==
    LET point == Point(lon, lat)
        zones_gdf == load_zones_near_point(lat, lon)
    IN find_gdcr_in(Match(zones_gdf, point))

----------------------------------------------------------------------------
(* HTTP responses *)

Json(body) == [transport |-> "json", status |-> 200, body |-> body]
HTTPException(status_code, detail) ==
    [transport |-> "http_error", status |-> status_code, body |-> [detail |-> detail]]
Unhandled(exc) ==
    [transport |-> "exception", status |-> 500, body |-> [exception |-> exc]]

NoRequest == [ep |-> "none"]
NoResponse == [transport |-> "none"]

----------------------------------------------------------------------------
(* Full-load variant, src/app_original.py *)

Zoning == <<"Z","o","n","i","n","g">>
prepared_geom == <<"p","r","e","p","a","r","e","d","_","g","e","o","m">>
NO_RULE == "No GDCR rule found"
E_OUTSIDE_ALL == "Point is outside all GDCR zones"

\* module level: gdf = gpd.read_file(GPKG_FILE), CRS check, prepared_geom column
gdf ==
    LET g == read_file(dataset, PyNone)
        g4326 == IF g.crs # EPSG THEN to_crs(g, EPSG) ELSE g
    IN [g4326 EXCEPT !.columns = Append(@, prepared_geom)]

\* item.get("zoning") or item.get("zone") or item.get("zone_name")
ItemKey(item) ==
    LET a == RowGet(item, "zoning", PyNone)
        b == RowGet(item, "zone", PyNone)
        c == RowGet(item, "zone_name", PyNone)
    IN IF truthy(a) THEN a ELSE IF truthy(b) THEN b ELSE c

HasRule(gdcr_list, zone_key) ==
    \E i \in 1..Len(gdcr_list) :
        truthy(ItemKey(gdcr_list[i])) /\ lower(strip(ItemKey(gdcr_list[i]))) = zone_key

\* gdcr_dict.get(zone_key): a later item with the same key replaces an earlier one
gdcr_dict_get(gdcr_list, zone_key) ==
    gdcr_list[CHOOSE i \in 1..Len(gdcr_list) :
        /\ truthy(ItemKey(gdcr_list[i]))
        /\ lower(strip(ItemKey(gdcr_list[i]))) = zone_key
        /\ \A j \in (i + 1)..Len(gdcr_list) :
              ~(truthy(ItemKey(gdcr_list[j])) /\ lower(strip(ItemKey(gdcr_list[j]))) = zone_key)]

get_gdcr(lat, lon) ==
    LET point == Point(lon, lat)
        hits == SelectSeq(gdf.rows, LAMBDA rw : contains(rw.geometry, point))
    IN IF hits = << >> THEN HTTPException(404, E_OUTSIDE_ALL)
       ELSE IF ~\E i \in 1..Len(gdf.columns) : gdf.columns[i] = Zoning
            THEN Unhandled("KeyError")
            ELSE LET zone_name == strip(str(hits[1].cells[Zoning]))
                     zone_key == lower(zone_name)
                 IN Json([latitude |-> lat, longitude |-> lon, zone |-> zone_name,
                          gdcr |-> IF HasRule(GDCR_DATA, zone_key)
                                   THEN gdcr_dict_get(GDCR_DATA, zone_key)
                                   ELSE NO_RULE])

----------------------------------------------------------------------------
(* Start-up of src/app.py, lines 49-72 *)

Absent == -1
Exists(f) == f # Absent
Complete(f) == f = ContentLen

Start ==
    /\ pc = "stopped"
    /\ starts < MaxStarts
    /\ pc' = "exists"
    /\ starts' = starts + 1
    /\ r' = "none"
    /\ req' = NoRequest
    /\ resp' = NoResponse
    /\ reads' = 0
    /\ UNCHANGED <<dataset, GDCR_DATA, db, file>>

\* if not os.path.exists(LOCAL_GEOJSON)
CheckExists ==
    /\ pc = "exists"
    /\ pc' = IF ~Exists(file) THEN "get" ELSE "load_gdcr"
    /\ UNCHANGED <<dataset, GDCR_DATA, db, file, r, starts, req, resp, reads>>

\* r = requests.get(GEOJSON_URL): a response, or a connection error that ends start-up
RequestsGet ==
    /\ pc = "get"
    /\ \/ \E status \in {"ok", "bad_status"} : r' = status /\ pc' = "raise_for_status"
       \/ r' = r /\ pc' = "stopped"
    /\ UNCHANGED <<dataset, GDCR_DATA, db, file, starts, req, resp, reads>>

RaiseForStatus ==
    /\ pc = "raise_for_status"
    /\ pc' = IF r = "ok" THEN "open" ELSE "stopped"
    /\ UNCHANGED <<dataset, GDCR_DATA, db, file, r, starts, req, resp, reads>>

\* open(LOCAL_GEOJSON, "wb") creates the file, empty
OpenFile ==
    /\ pc = "open"
    /\ \/ file' = 0 /\ pc' = "write"
       \/ file' = file /\ pc' = "stopped"
    /\ UNCHANGED <<dataset, GDCR_DATA, db, r, starts, req, resp, reads>>

\* f.write(r.content): n units reach the disk; n < ContentLen is a failed write,
\* after which the with-block closes the file and the exception ends start-up
WriteContent ==
    /\ pc = "write"
    /\ \E n \in 0..ContentLen :
          /\ file' = n
          /\ pc' = IF n = ContentLen THEN "load_gdcr" ELSE "stopped"
    /\ UNCHANGED <<dataset, GDCR_DATA, db, r, starts, req, resp, reads>>

\* json.load(GDCR_FILE)
LoadGDCR ==
    /\ pc = "load_gdcr"
    /\ pc' \in {"firebase", "stopped"}
    /\ UNCHANGED <<dataset, GDCR_DATA, db, file, r, starts, req, resp, reads>>

FirebaseInit ==
    /\ pc = "firebase"
    /\ pc' \in {"ready", "stopped"}
    /\ UNCHANGED <<dataset, GDCR_DATA, db, file, r, starts, req, resp, reads>>

\* the process is stopped by its host
Stop ==
    /\ pc = "ready"
    /\ pc' = "stopped"
    /\ UNCHANGED <<dataset, GDCR_DATA, db, file, r, starts, req, resp, reads>>

----------------------------------------------------------------------------
(* Endpoints *)

Coords == 0..MaxCoord

\* gpd.read_file raises on a file that does not hold the whole dataset
Resolve(lat, lon) ==
    IF Complete(file) THEN Json(find_gdcr(lat, lon)) ELSE Unhandled("DataSourceError")

gdcr_by_latlon ==
    /\ pc = "ready"
    /\ \E lat \in Coords, lon \in Coords :
          /\ req' = [ep |-> "gdcr-by-latlon", lat |-> lat, lon |-> lon]
          /\ resp' = Resolve(lat, lon)
    /\ reads' = 1
    /\ UNCHANGED <<dataset, GDCR_DATA, db, file, pc, r, starts>>

gdcr ==
    /\ pc = "ready"
    /\ \E lat \in Coords, lon \in Coords :
          /\ req' = [ep |-> "gdcr", lat |-> lat, lon |-> lon]
          /\ resp' = get_gdcr(lat, lon)
    /\ reads' = 0
    /\ UNCHANGED <<dataset, GDCR_DATA, db, file, pc, r, starts>>

DocIds == {"p1", "p2", "p3", "p4", "p5"}
GeoPoint(lat, lon) == [t |-> "geo", latitude |-> lat, longitude |-> lon]
Null == [t |-> "null"]
DocGet(d, k) == IF k \in DOMAIN d THEN d[k] ELSE Null

E_NODOC == "Document not found"
E_NOGEO == "Lat/Long not found in document"

\* a plausible slip: doc_ref.set(fields) replaces the document
Replace(d, fields) == fields

\* doc_ref.update(fields): sets the given fields, keeps the others
Update(d, fields) ==
    [k \in DOMAIN d \cup DOMAIN fields |-> IF k \in DOMAIN fields THEN fields[k] ELSE d[k]]

\* a plausible slip: a document without coordinates is looked up at the origin
pick_geo_default(d) ==
    IF DocGet(d, "lat_long_land") # Null THEN DocGet(d, "lat_long_land")
    ELSE IF DocGet(d, "lat_long_plot") # Null THEN DocGet(d, "lat_long_plot")
    ELSE GeoPoint(0, 0)

\* d.get("lat_long_land") or d.get("lat_long_plot")
pick_geo(d) ==
    IF DocGet(d, "lat_long_land") # Null
    THEN DocGet(d, "lat_long_land")
    ELSE DocGet(d, "lat_long_plot")

gdcr_by_doc ==
    /\ pc = "ready"
    /\ \E doc_id \in DocIds :
        /\ req' = [ep |-> "gdcr-by-doc", doc_id |-> doc_id]
        /\ IF doc_id \notin DOMAIN db
           THEN resp' = Json([error |-> E_NODOC]) /\ reads' = 0 /\ db' = db
           ELSE LET d == db[doc_id]
                    geo == pick_geo(d)
                IN IF geo = Null
                   THEN resp' = Json([error |-> E_NOGEO]) /\ reads' = 0 /\ db' = db
                   ELSE LET result == Resolve(geo.latitude, geo.longitude) IN
                        /\ reads' = 1
                        /\ IF result.transport # "json" THEN resp' = result /\ db' = db
                           ELSE IF "error" \in DOMAIN result.body
                           THEN resp' = result /\ db' = db
                           ELSE /\ db' = [db EXCEPT ![doc_id] = Update(d,
                                      [zoning_admin |-> result.body.zone,
                                       fsi_admin |-> result.body.base_fsi,
                                       permissibleheight_admin |-> result.body.max_height_m])]
                                /\ resp' = Json([status |-> "GDCR updated",
                                                 doc_id |-> doc_id,
                                                 zone |-> result.body.zone])
    /\ UNCHANGED <<dataset, GDCR_DATA, file, pc, r, starts>>

----------------------------------------------------------------------------
(* Inputs: polygon files, regulation tables, documents *)

\* a narrow east-west strip, a block crossing it, and a distant square
Strip == [minx |-> 0, miny |-> 0, maxx |-> MaxCoord, maxy |-> 2]
Block == [minx |-> 1, miny |-> 0, maxx |-> 3, maxy |-> 4]
Far == [minx |-> 3, miny |-> 3, maxx |-> 5, maxy |-> 5]
Geoms == {Strip, Block, Far}

k_name == <<"n","a","m","e">>
\* {"name": "x", "Zoning": " R1"}, {"ZONE": "r2 "}, {"name": "x"}
BagZoning == << <<k_name, <<"x">>>>, <<Zoning, <<" ","R","1">>>> >>
BagZONE == << <<<<"Z","O","N","E">>, <<"r","2"," ">>>> >>
BagNoZone == << <<k_name, <<"x">>>> >>
Bags == {BagZoning, BagZONE, BagNoZone}

Features == [geometry : Geoms, properties : Bags]

Datasets ==
    UNION {{ds \in [1..n -> Features] :
               \A i, j \in 1..n : i # j => ds[i].geometry # ds[j].geometry}
           : n \in 0..MaxFeatures}

RuleR1 == [zoning |-> <<"r","1"," ">>, base_fsi |-> "1.8",
           max_height_m |-> "15", permissible_use |-> "residential"]
RuleR2 == [zoning |-> <<"R","2">>, base_fsi |-> "2.5",
           max_height_m |-> "30", permissible_use |-> "commercial"]
RuleR2NoFsi == [zoning |-> <<" ","R","2">>,
                max_height_m |-> "45", permissible_use |-> "industrial"]
RuleBlank == [base_fsi |-> "0.0", max_height_m |-> "0", permissible_use |-> "none"]
Tables == {<<RuleR1, RuleR2>>, <<RuleBlank, RuleR2NoFsi>>}

\* "p5" is the id of no document
InitialDocs ==
    [id \in {"p1", "p2", "p3", "p4"} |->
        CASE id = "p1" -> [lat_long_land |-> GeoPoint(1, 2), lat_long_plot |-> GeoPoint(4, 4),
                           owner |-> "a"]
          [] id = "p2" -> [lat_long_land |-> Null, lat_long_plot |-> GeoPoint(1, 4),
                           owner |-> "b"]
          [] id = "p3" -> [owner |-> "c"]
          [] id = "p4" -> [lat_long_land |-> Null, owner |-> "d"]]

----------------------------------------------------------------------------
(* Specifications *)

\* the service after a successful start-up
Init ==
    /\ dataset \in Datasets
    /\ GDCR_DATA \in Tables
    /\ db = InitialDocs
    /\ file = ContentLen
    /\ pc = "ready"
    /\ r = "none"
    /\ starts = 1
    /\ req = NoRequest
    /\ resp = NoResponse
    /\ reads = 0

\* the lookup endpoint of src/app.py (windowed strategy)
Next == gdcr_by_latlon

Spec == Init /\ [][Next]_vars

\* the lookup endpoint of src/app_original.py (full-load strategy)
FullNext == gdcr

FullSpec == Init /\ [][FullNext]_vars

\* the document endpoint of src/app.py
DocNext == gdcr_by_doc

DocSpec == Init /\ [][DocNext]_vars

\* start-up of src/app.py on a host that has no local dataset file yet
BootInit ==
    /\ dataset = <<[geometry |-> Strip, properties |-> BagZoning]>>
    /\ GDCR_DATA = <<RuleR1, RuleR2>>
    /\ db = InitialDocs
    /\ file = Absent
    /\ pc = "stopped"
    /\ r = "none"
    /\ starts = 0
    /\ req = NoRequest
    /\ resp = NoResponse
    /\ reads = 0

BootNext ==
    \/ Start \/ CheckExists \/ RequestsGet \/ RaiseForStatus \/ OpenFile
    \/ WriteContent \/ LoadGDCR \/ FirebaseInit \/ Stop \/ gdcr_by_latlon

BootSpec == BootInit /\ [][BootNext]_vars

----------------------------------------------------------------------------
(* Vocabulary of the properties, stated on the inputs and not on the frame *)

\* the coordinate lies in the interior of the polygon: longitude against the
\* polygon's x range, latitude against its y range
Inside(g, lat, lon) ==
    g.minx < lon /\ lon < g.maxx /\ g.miny < lat /\ lat < g.maxy

ContainingFeatures(lat, lon) ==
    {i \in 1..Len(dataset) : Inside(dataset[i].geometry, lat, lon)}

First(S) == CHOOSE i \in S : \A j \in S : i <= j

Norm(s) == lower(strip(s))

OwnZoneKeys(f) ==
    {i \in 1..Len(f.properties) :
        Norm(f.properties[i][1]) \in {k_zoning, k_zone, k_zone_name}}

HasOwnZone(f) == OwnZoneKeys(f) # {}

\* the feature's zone name: the value under its own first recognised key, trimmed
OwnZone(f) == strip(f.properties[First(OwnZoneKeys(f))][2])

Entries(z) ==
    {i \in 1..Len(GDCR_DATA) :
        "zoning" \in DOMAIN GDCR_DATA[i] /\ Norm(GDCR_DATA[i].zoning) = Norm(z)}

Field(row, k) == IF k \in DOMAIN row THEN row[k] ELSE JsonNull

IsLookup == req.ep = "gdcr-by-latlon"
IsFullLookup == req.ep = "gdcr"
IsDocRequest == req.ep = "gdcr-by-doc"

NoGeoValue(d) ==
    /\ "lat_long_land" \in DOMAIN d => d.lat_long_land = Null
    /\ "lat_long_plot" \in DOMAIN d => d.lat_long_plot = Null

StoredCoordinate(d) ==
    IF "lat_long_land" \in DOMAIN d /\ d.lat_long_land # Null
    THEN d.lat_long_land ELSE d.lat_long_plot

AdminFields == {"zoning_admin", "fsi_admin", "permissibleheight_admin"}

Asymmetric(g) == <<g.minx, g.maxx>> # <<g.miny, g.maxy>>

----------------------------------------------------------------------------
(* Properties *)

\* C1: a coordinate strictly inside exactly one polygon whose own zone name has
\* an entry in the regulation table gets exactly the fields zone, base_fsi,
\* max_height_m, permissible_use, with the entry's three values and no error.
C1_RegulationFields ==
    (IsLookup /\ Cardinality(ContainingFeatures(req.lat, req.lon)) = 1) =>
        LET f == dataset[First(ContainingFeatures(req.lat, req.lon))] IN
        (HasOwnZone(f) /\ Entries(OwnZone(f)) # {}) =>
            LET e == GDCR_DATA[First(Entries(OwnZone(f)))] IN
            /\ resp.transport = "json"
            /\ DOMAIN resp.body = {"zone", "base_fsi", "max_height_m", "permissible_use"}
            /\ resp.body.base_fsi = Field(e, "base_fsi")
            /\ resp.body.max_height_m = Field(e, "max_height_m")
            /\ resp.body.permissible_use = Field(e, "permissible_use")

\* C2: a coordinate that no polygon contains gets the outside-zones error and
\* nothing else, whatever the property keys and the regulation table are.
C2_OutsideError ==
    (IsLookup /\ ContainingFeatures(req.lat, req.lon) = {}) =>
        resp = Json([error |-> E_OUTSIDE])

C2_Witness ==
    /\ IsLookup
    /\ Len(dataset) = 2
    /\ \A i \in 1..Len(dataset) : ~HasOwnZone(dataset[i])
    /\ ContainingFeatures(req.lat, req.lon) = {}
    /\ \E i \in 1..Len(dataset) :
          LET g == dataset[i].geometry IN
          req.lon = g.maxx /\ g.miny < req.lat /\ req.lat < g.maxy
    /\ resp = Json([error |-> E_OUTSIDE])

\* C3: a coordinate whose containing polygon (the first one in file order) has
\* none of the recognised zone-name keys among its own properties gets the
\* zone-column-missing error and no zone field, whatever keys the other
\* features of the file carry.
C3_ZoneColumnMissing ==
    (IsLookup /\ ContainingFeatures(req.lat, req.lon) # {}) =>
        LET f == dataset[First(ContainingFeatures(req.lat, req.lon))] IN
        ~HasOwnZone(f) => resp = Json([error |-> E_NOCOLUMN])

\* C4: a coordinate whose containing polygon (the first one in file order) has a
\* zone name without an entry in the regulation table gets exactly that zone
\* name and the regulation-not-found error.
C4_RegulationNotFound ==
    (IsLookup /\ ContainingFeatures(req.lat, req.lon) # {}) =>
        LET f == dataset[First(ContainingFeatures(req.lat, req.lon))] IN
        (HasOwnZone(f) /\ Entries(OwnZone(f)) = {}) =>
            resp = Json([zone |-> OwnZone(f), error |-> E_NODATA])

\* C5: the windowed lookup answers every coordinate exactly as the full-load
\* lookup does (a polygon containing the coordinate always meets the window).
C5_StrategiesAgree ==
    IsLookup => resp = get_gdcr(req.lat, req.lon)

\* C6: on a file holding one polygon with different longitude and latitude
\* ranges, a coordinate with lon in the longitude range and lat in the latitude
\* range resolves to the polygon's zone, and a coordinate that is in the
\* polygon only after swapping lat and lon gets the outside-zones error.
C6_AxisOrder ==
    (IsLookup /\ Len(dataset) = 1 /\ Asymmetric(dataset[1].geometry)) =>
        LET f == dataset[1]
            g == f.geometry
        IN /\ (Inside(g, req.lat, req.lon) /\ HasOwnZone(f)) =>
                  /\ resp.transport = "json"
                  /\ "zone" \in DOMAIN resp.body
                  /\ resp.body.zone = OwnZone(f)
           /\ (~Inside(g, req.lat, req.lon) /\ Inside(g, req.lon, req.lat)) =>
                  resp = Json([error |-> E_OUTSIDE])

C6_Witness ==
    /\ IsLookup
    /\ dataset = <<[geometry |-> Strip, properties |-> BagZoning]>>
    /\ req.lat = 1 /\ req.lon = MaxCoord - 1
    /\ ~Inside(Strip, req.lon, req.lat)
    /\ "zone" \in DOMAIN resp.body
    /\ resp.body.zone = <<"R","1">>

\* C7: /gdcr-by-doc on an existing document without a coordinate answers the
\* lat/long-not-found error, reads no dataset and leaves the document as it was.
C7_NoGeoNoResolution ==
    (IsDocRequest /\ req.doc_id \in DOMAIN db /\ NoGeoValue(db[req.doc_id])) =>
        /\ resp = Json([error |-> E_NOGEO])
        /\ reads = 0
        /\ db[req.doc_id] = InitialDocs[req.doc_id]

C7_Witness ==
    /\ IsDocRequest
    /\ req.doc_id = "p4"
    /\ "lat_long_land" \in DOMAIN db["p4"]
    /\ resp = Json([error |-> E_NOGEO])

\* C8 as stated: whenever the document exists and holds a coordinate, the three
\* admin fields are written and the answer is {status, doc_id, zone}.
C8_AlwaysWritesBack ==
    (IsDocRequest /\ req.doc_id \in DOMAIN db /\ ~NoGeoValue(db[req.doc_id])) =>
        /\ resp.transport = "json"
        /\ DOMAIN resp.body = {"status", "doc_id", "zone"}
        /\ AdminFields \subseteq DOMAIN db[req.doc_id]

C8_DocStep ==
    req'.ep = "gdcr-by-doc" =>
        LET id == req'.doc_id IN
        IF id \in DOMAIN db /\ ~NoGeoValue(db[id])
        THEN LET geo == StoredCoordinate(db[id])
                 res == find_gdcr(geo.latitude, geo.longitude)
             IN IF "error" \in DOMAIN res
                THEN resp' = Json(res) /\ db' = db
                ELSE /\ resp'.transport = "json"
                     /\ DOMAIN resp'.body = {"status", "doc_id", "zone"}
                     /\ resp'.body.doc_id = id
                     /\ resp'.body.zone = res.zone
                     /\ DOMAIN db' = DOMAIN db
                     /\ \A o \in DOMAIN db \ {id} : db'[o] = db[o]
                     /\ DOMAIN db'[id] = DOMAIN db[id] \cup AdminFields
                     /\ db'[id].zoning_admin = res.zone
                     /\ db'[id].fsi_admin = res.base_fsi
                     /\ db'[id].permissibleheight_admin = res.max_height_m
                     /\ \A k \in DOMAIN db[id] \ AdminFields : db'[id][k] = db[id][k]
        ELSE /\ db' = db
             /\ resp'.transport = "json"
             /\ DOMAIN resp'.body = {"error"}

\* C8 amended: when the document exists and holds a coordinate, the resolver
\* runs on it (lat_long_land, else lat_long_plot); if its result has no error
\* the three admin fields of that document, and nothing else, are written from
\* it and the answer is {status, doc_id, zone}; if its result has an error, or
\* the document or the coordinate is absent, a structured error is answered and
\* no document changes.
C8_WritesBack == [][C8_DocStep]_vars

C8_Witness ==
    /\ IsDocRequest
    /\ req.doc_id = "p2"
    /\ "status" \in DOMAIN resp.body
    /\ AdminFields \subseteq DOMAIN db["p2"]
    /\ db["p2"].owner = "b"

\* C9: a resolver-level failure (outside all zones, no zone key, no regulation
\* entry) is answered by a JSON payload with an error field, never by an HTTP
\* error status or an unhandled exception.
C9_StructuredFailures ==
    (req.ep \in {"gdcr-by-latlon", "gdcr"}) =>
        LET C == ContainingFeatures(req.lat, req.lon)
            failure == \/ C = {}
                       \/ ~HasOwnZone(dataset[First(C)])
                       \/ Entries(OwnZone(dataset[First(C)])) = {}
        IN failure => (resp.transport = "json" /\ "error" \in DOMAIN resp.body)

\* C10: except while the write itself is in progress, the local dataset file is
\* absent or holds the whole downloaded content.
C10_NoPartialFile ==
    pc # "write" => (~Exists(file) \/ Complete(file))

====
